---------------------------- MODULE Spec2Model ----------------------------
(***************************************************************************)
(* Model of rss-bluesky-bridge: the DynamoDB repository (staging rows and  *)
(* dedup rows in one table), the pipeline stages that use it, and the      *)
(* grapheme-aware truncation truncate_to_word.                             *)
(***************************************************************************)
EXTENDS Integers, Sequences, FiniteSets, TLC

VARIABLES
    summary,          \* truncate_to_word: the input text, a sequence of code points
    max_graphemes,    \* truncate_to_word: the budget
    truncated,        \* truncate_to_word: the returned string (code points)
    tpc,              \* "input" before the call, "returned" after it
    table,            \* the DynamoDB table: a set of items, at most one per (PK, SK)
    ret,              \* what the last finished operation returned
    ops,              \* the number of operations invoked so far
    record_calls,     \* the guids create_record_item has been called for
    record_writes,    \* the dedup rows written: who wrote, for which guid, which key, as which operation
    pc,               \* "idle", or the loop a bulk operation is in
    call,             \* the bulk operation in progress: its name and argument
    chunk_index,      \* bulk operation: the number of chunks already sent
    requests,         \* bulk operation: the bulk-write requests sent, with responses
    queries,          \* delete_items_by_execution_id: the queries sent, with responses
    staged,           \* the items of the last two create_execution_items calls that returned Ok
    items_to_delete,  \* delete_items_by_execution_id: the keys collected by the query
    last_evaluated_key, \* delete_items_by_execution_id: the continuation token
    total_deleted,    \* delete_items_by_execution_id: the running count
    updates           \* concurrent callers of update_execution_item_summary: each one's position and arguments

textVars == <<summary, max_graphemes, truncated, tpc>>
bulkVars == <<pc, call, chunk_index, requests, queries, items_to_delete,
              last_evaluated_key, total_deleted>>
tableVars == <<table, ret, ops, record_calls, record_writes, staged, pc, call,
               chunk_index, requests, queries, items_to_delete, last_evaluated_key,
               total_deleted>>
vars == <<summary, max_graphemes, truncated, tpc, table, ret, ops, record_calls,
          record_writes, staged, pc, call, chunk_index, requests, queries,
          items_to_delete, last_evaluated_key, total_deleted, updates>>

(***************************************************************************)
(* Bounds of the model.                                                    *)
(***************************************************************************)
MaxTextLen == 5
MaxBudget == 4
MaxOps == 3
MaxPage == 2
MaxItems == 51

Min(a, b) == IF a < b THEN a ELSE b

(***************************************************************************)
(* Text.  A string is a sequence of code points.  The code points of the   *)
(* model: a letter, the space, the tab (whitespace that is no space), a    *)
(* combining mark (which extends the grapheme cluster before it) and the   *)
(* ellipsis U+2026 the code appends.                                       *)
(***************************************************************************)
Space == " "
Tab == "\t"
Letter == "a"
Combining == "^"
Ellipsis == "..."

CodePoints == {Letter, Space, Tab, Combining, Ellipsis}

RECURSIVE StringsUpTo(_)
StringsUpTo(n) ==
    IF n = 0 THEN {<<>>}
    ELSE LET shorter == StringsUpTo(n - 1)
         IN  shorter \cup {Append(s, c) : s \in {t \in shorter : Len(t) = n - 1},
                                          c \in CodePoints}

\* char::is_whitespace, on the model's code points
is_whitespace(c) == c \in {Space, Tab}

RECURSIVE trim_start(_)
trim_start(s) ==
    IF s # <<>> /\ is_whitespace(Head(s)) THEN trim_start(Tail(s)) ELSE s

RECURSIVE trim_end(_)
trim_end(s) ==
    IF s # <<>> /\ is_whitespace(s[Len(s)])
    THEN trim_end(SubSeq(s, 1, Len(s) - 1))
    ELSE s

\* str::trim
trim(s) == trim_end(trim_start(s))

\* UnicodeSegmentation::graphemes(true): extended grapheme clusters.  A
\* combining mark joins the cluster before it (rule GB9); at the start of the
\* string it is a cluster of its own.
RECURSIVE graphemes(_)
graphemes(s) ==
    IF s = <<>> THEN <<>>
    ELSE LET init == graphemes(SubSeq(s, 1, Len(s) - 1))
             c == s[Len(s)]
         IN  IF c = Combining /\ init # <<>>
             THEN [init EXCEPT ![Len(init)] = Append(@, c)]
             ELSE Append(init, <<c>>)

\* [&str]::join("")
RECURSIVE join(_)
join(v) == IF v = <<>> THEN <<>> ELSE Head(v) \o join(Tail(v))

\* Vec::truncate(len): keeps the first len elements, no effect when len >= v.len()
VecTruncate(v, len) == SubSeq(v, 1, Min(len, Len(v)))

\* Mutant of rposition_space: position, the first space instead of the last
position_space(v) ==
    LET hits == {i \in 1..Len(v) : v[i] = <<Space>>}
    IN  IF hits = {} THEN <<>>
        ELSE <<(CHOOSE i \in hits : \A j \in hits : i <= j) - 1>>

\* Mutant of rposition_space: any whitespace is a cut point
rposition_whitespace(v) ==
    LET hits == {i \in 1..Len(v) : v[i] \in {<<Space>>, <<Tab>>}}
    IN  IF hits = {} THEN <<>>
        ELSE <<(CHOOSE i \in hits : \A j \in hits : j <= i) - 1>>

\* graphemes.iter().rposition(|&g| g == " "): <<i>> for Some(i) (0-based), <<>> for None
rposition_space(v) ==
    LET hits == {i \in 1..Len(v) : v[i] = <<Space>>}
    IN  IF hits = {} THEN <<>>
        ELSE <<(CHOOSE i \in hits : \A j \in hits : j <= i) - 1>>

\* while graphemes.last() == Some(" ") { graphemes.pop(); }
RECURSIVE pop_trailing_spaces(_)
pop_trailing_spaces(v) ==
    IF v # <<>> /\ v[Len(v)] = <<Space>>
    THEN pop_trailing_spaces(SubSeq(v, 1, Len(v) - 1))
    ELSE v

\* The cut of the first max graphemes at the last space, trailing spaces removed
\* (text_utils.rs lines 12-25).
CutAtWord(s, max) ==
    LET first == VecTruncate(graphemes(s), max)
        last_space_index == rposition_space(first)
        cut == IF last_space_index # <<>> /\ last_space_index[1] > 0
               THEN VecTruncate(first, last_space_index[1])
               ELSE first
    IN  pop_trailing_spaces(cut)

\* Mutant of AddEllipsis: the ellipsis is always appended
AlwaysAppendEllipsis(v, max) == Append(v, <<Ellipsis>>)

\* The ellipsis: appended below the budget, replacing the last grapheme at it
\* (text_utils.rs lines 27-35).
AddEllipsis(v, max) ==
    LET trimmed_length == Len(v)
    IN  IF trimmed_length < max THEN Append(v, <<Ellipsis>>)
        ELSE IF trimmed_length = max
             THEN [v EXCEPT ![Len(v)] = <<Ellipsis>>]
             ELSE v

\* Mutant of truncate_to_word: the cut is taken from the text as given, not
\* from the trimmed text
truncate_untrimmed(text, max) ==
    IF max = 0 \/ trim(text) = <<>> THEN trim(text)
    ELSE LET s == trim(text)
             num_graphemes == Len(graphemes(s))
         IN  IF num_graphemes > max
             THEN join(AddEllipsis(CutAtWord(text, max), max))
             ELSE s

\* Mutant of truncate_to_word: shortens at num_graphemes >= max
truncate_at_limit(text, max) ==
    IF max = 0 \/ trim(text) = <<>> THEN trim(text)
    ELSE LET s == trim(text)
             num_graphemes == Len(graphemes(s))
         IN  IF num_graphemes >= max
             THEN join(AddEllipsis(CutAtWord(s, max), max))
             ELSE s

\* Mutant of truncate_to_word: no early return for a budget of 0
truncate_without_escape(text, max) ==
    IF trim(text) = <<>> THEN trim(text)
    ELSE LET s == trim(text)
             num_graphemes == Len(graphemes(s))
         IN  IF num_graphemes > max
             THEN join(AddEllipsis(CutAtWord(s, max), max))
             ELSE s

truncate_to_word(text, max) ==
    IF max = 0 \/ trim(text) = <<>> THEN trim(text)
    ELSE LET s == trim(text)
             num_graphemes == Len(graphemes(s))
         IN  IF num_graphemes > max
             THEN join(AddEllipsis(CutAtWord(s, max), max))
             ELSE s

(***************************************************************************)
(* The specification of the pure function: every text and budget within    *)
(* the bounds, and the call.                                               *)
(***************************************************************************)
TextInit ==
    /\ summary \in StringsUpTo(MaxTextLen)
    /\ max_graphemes \in 0..MaxBudget
    /\ truncated = <<>>
    /\ tpc = "input"

TextIdle ==
    /\ summary = <<>>
    /\ max_graphemes = 0
    /\ truncated = <<>>
    /\ tpc = "input"

Truncate ==
    /\ tpc = "input"
    /\ truncated' = truncate_to_word(summary, max_graphemes)
    /\ tpc' = "returned"
    /\ UNCHANGED <<summary, max_graphemes>>
    /\ UNCHANGED <<tableVars, updates>>

(***************************************************************************)
(* Values.  Option<T>: <<>> is None and <<x>> is Some(x).  An              *)
(* AttributeValue is a pair of its type tag and its payload.               *)
(***************************************************************************)
None == <<>>
Some(x) == <<x>>

S(x) == <<"S", x>>
N(x) == <<"N", x>>

(***************************************************************************)
(* The table.  An item is a function from attribute names to attribute     *)
(* values; the table holds at most one item per primary key (PK, SK).      *)
(***************************************************************************)
Key(item) == <<item.PK, item.SK>>

\* Mutant of PutItem: the attributes of the stored item that the new item
\* lacks are kept
MergeItem(t, item) ==
    LET hit == {r \in t : Key(r) = Key(item)}
    IN  {r \in t : Key(r) # Key(item)}
        \cup {IF hit = {} THEN item ELSE item @@ (CHOOSE r \in hit : TRUE)}

\* PutItem: replaces the whole item stored under the key
PutItem(t, item) == {r \in t : Key(r) # Key(item)} \cup {item}

\* GetItem: the item stored under the key, if any
GetItem(t, pk, sk) ==
    LET hit == {r \in t : Key(r) = <<pk, sk>>}
    IN  IF hit = {} THEN None ELSE Some(CHOOSE r \in hit : TRUE)

\* Mutant of UpdateItemSet: the item is put anew with its key and the attribute
PutAttributeOnly(t, pk, sk, name, value) ==
    PutItem(t, (name :> value) @@ ("PK" :> pk) @@ ("SK" :> sk))

\* UpdateItem with "SET name = :value" and no condition expression: sets the
\* attribute of the stored item, and creates the item when the key is absent
UpdateItemSet(t, pk, sk, name, value) ==
    LET old == GetItem(t, pk, sk)
        base == IF old = None THEN ("PK" :> pk) @@ ("SK" :> sk) ELSE old[1]
    IN  PutItem(t, (name :> value) @@ base)

\* A delete request of BatchWriteItem
DeleteKey(t, key) == {r \in t : Key(r) # key}

(***************************************************************************)
(* The identifiers of the model.  Run identifiers and guids are arbitrary  *)
(* strings: the repository takes both as &str and the guid comes from the  *)
(* feed.  "A" is a guid like any other.                                    *)
(***************************************************************************)
Guids == {"g1", "A"}
ExecutionIds == {"run-1", "g1"}

\* A summary text
SummaryText == <<Letter, Space, Letter>>

\* The items the callers build.  "v1" has the shape ExecutionItem::new gives,
\* "v2" the shape the fetch stage builds (no _type), "sparse" only the key and
\* a summary field.
SampleItem(execution_id, guid, variant) ==
    CASE variant = "v1" ->
            [execution_id |-> execution_id, guid |-> guid, title |-> Some("t1"),
             description |-> Some("d1"), link |-> Some("l1"), summary |-> None,
             ttl |-> Some(1000), _type |-> Some("ExecutionItem"),
             pub_date |-> Some("p1")]
      [] variant = "v2" ->
            [execution_id |-> execution_id, guid |-> guid, title |-> Some("t2"),
             description |-> Some("d2"), link |-> Some("l2"), summary |-> None,
             ttl |-> Some(2000), _type |-> None, pub_date |-> Some("p2")]
      [] OTHER ->
            [execution_id |-> execution_id, guid |-> guid, title |-> None,
             description |-> None, link |-> None, summary |-> Some(<<Letter>>),
             ttl |-> None, _type |-> None, pub_date |-> None]

(***************************************************************************)
(* The repository (repository.rs).                                         *)
(***************************************************************************)
\* One optional attribute of a put: written when the field is Some
OptionalAttr(name, field, value) ==
    IF field # None THEN name :> value ELSE <<>>

\* Mutant of ExecutionPut: the summary field is written when present
ExecutionPutWithSummary(item) ==
    OptionalAttr("summary", item.summary, S(item.summary[1]))
    @@ OptionalAttr("pub_date", item.pub_date, S(item.pub_date[1]))
    @@ OptionalAttr("_TYPE", item._type, S("ExecutionItem"))
    @@ OptionalAttr("ttl", item.ttl, N(ToString(item.ttl[1])))
    @@ OptionalAttr("link", item.link, S(item.link[1]))
    @@ OptionalAttr("description", item.description, S(item.description[1]))
    @@ OptionalAttr("title", item.title, S(item.title[1]))
    @@ ("PK" :> S(item.execution_id)) @@ ("SK" :> S(item.guid))

\* Mutant of ExecutionPut: the ttl is written as a string attribute
ExecutionPutTtlAsString(item) ==
    OptionalAttr("pub_date", item.pub_date, S(item.pub_date[1]))
    @@ OptionalAttr("_TYPE", item._type, S("ExecutionItem"))
    @@ OptionalAttr("ttl", item.ttl, S(ToString(item.ttl[1])))
    @@ OptionalAttr("link", item.link, S(item.link[1]))
    @@ OptionalAttr("description", item.description, S(item.description[1]))
    @@ OptionalAttr("title", item.title, S(item.title[1]))
    @@ ("PK" :> S(item.execution_id)) @@ ("SK" :> S(item.guid))

\* The item create_execution_item and create_execution_items put for an
\* ExecutionItem: the key and every optional field that is present; the
\* summary field is never written.
ExecutionPut(item) ==
    OptionalAttr("pub_date", item.pub_date, S(item.pub_date[1]))
    @@ OptionalAttr("_TYPE", item._type, S("ExecutionItem"))
    @@ OptionalAttr("ttl", item.ttl, N(ToString(item.ttl[1])))
    @@ OptionalAttr("link", item.link, S(item.link[1]))
    @@ OptionalAttr("description", item.description, S(item.description[1]))
    @@ OptionalAttr("title", item.title, S(item.title[1]))
    @@ ("PK" :> S(item.execution_id)) @@ ("SK" :> S(item.guid))

\* The key create_record_item writes and record_item_exists and
\* get_record_item read
RecordKey(guid) == <<S(guid), S("A")>>

\* The item create_record_item puts
RecordPut(guid) ==
    ("PK" :> RecordKey(guid)[1]) @@ ("SK" :> RecordKey(guid)[2])
    @@ ("_TYPE" :> S("RecordItem"))

\* record_item_exists, on a successful read
RecordItemExists(t, guid) ==
    GetItem(t, RecordKey(guid)[1], RecordKey(guid)[2]) # None

\* The item the record stage (update_dynamodb.rs) puts
StagePut(guid) == ("PK" :> S("guid-" \o guid)) @@ ("SK" :> S("A"))

Result(op, args, ok, value) == [op |-> op, args |-> args, ok |-> ok, value |-> value]

Idle == pc = "idle" /\ ops < MaxOps

\* The locals of a finished bulk operation are gone when the next operation starts
NoBulk ==
    /\ pc' = "idle"
    /\ call' = [op |-> "none"]
    /\ chunk_index' = 0
    /\ requests' = <<>>
    /\ queries' = <<>>
    /\ items_to_delete' = <<>>
    /\ last_evaluated_key' = None
    /\ total_deleted' = 0

\* Every table request can fail (transport or service error): the operation
\* then returns Err and the request has changed nothing.
create_execution_item(item) ==
    /\ Idle
    /\ \E sent \in BOOLEAN :
          /\ table' = IF sent THEN PutItem(table, ExecutionPut(item)) ELSE table
          /\ ret' = Result("create_execution_item", <<item.execution_id, item.guid>>,
                           sent, None)
    /\ ops' = ops + 1
    /\ UNCHANGED <<record_calls, record_writes, staged>>
    /\ NoBulk
    /\ UNCHANGED <<textVars, updates>>

update_execution_item_summary(execution_id, guid, text) ==
    /\ Idle
    /\ \E sent \in BOOLEAN :
          /\ table' = IF sent
                      THEN UpdateItemSet(table, S(execution_id), S(guid),
                                         "summary", S(text))
                      ELSE table
          /\ ret' = Result("update_execution_item_summary", <<execution_id, guid>>,
                           sent, None)
    /\ ops' = ops + 1
    /\ UNCHANGED <<record_calls, record_writes, staged>>
    /\ NoBulk
    /\ UNCHANGED <<textVars, updates>>

(***************************************************************************)
(* Concurrent callers of update_execution_item_summary.  The function is   *)
(* one UpdateItem request and the await of its response; the table applies *)
(* the requests in flight one at a time, in any order.                     *)
(***************************************************************************)
Callers == {1, 2}

NoUpdates == [c \in Callers |-> [state |-> "idle", execution_id |-> "", guid |-> "",
                                 text |-> <<>>]]

\* Caller c calls update_execution_item_summary: the request is sent
update_execution_item_summary_send(c, execution_id, guid, text) ==
    /\ updates[c].state = "idle"
    /\ updates' = [updates EXCEPT ![c] = [state |-> "sent", execution_id |-> execution_id,
                                          guid |-> guid, text |-> text]]
    /\ UNCHANGED <<textVars, tableVars>>

\* The table applies the request of caller c, or the request fails, and the
\* caller gets Ok(()) or Err
update_execution_item_summary_receive(c) ==
    /\ updates[c].state = "sent"
    /\ \E sent \in BOOLEAN :
          /\ table' = IF sent
                      THEN UpdateItemSet(table, S(updates[c].execution_id),
                                         S(updates[c].guid), "summary",
                                         S(updates[c].text))
                      ELSE table
          /\ updates' = [updates EXCEPT ![c].state = IF sent THEN "ok" ELSE "err"]
    /\ UNCHANGED <<ret, ops, record_calls, record_writes, staged, bulkVars>>
    /\ UNCHANGED textVars

\* Mutant of PutAccepted: a put conditional on attribute_not_exists(PK)
PutIfAbsent(t, item) == GetItem(t, item.PK, item.SK) = None

\* put_item with no condition expression: the table takes the put whatever
\* row the key holds
PutAccepted(t, item) == TRUE

create_record_item(guid) ==
    /\ Idle
    /\ \E served \in BOOLEAN :
          LET sent == served /\ PutAccepted(table, RecordPut(guid))
          IN  /\ table' = IF sent THEN PutItem(table, RecordPut(guid)) ELSE table
              /\ record_writes' =
                    IF sent
                    THEN record_writes \cup {[by |-> "create_record_item",
                                              guid |-> guid,
                                              key |-> Key(RecordPut(guid)),
                                              at |-> ops + 1]}
                    ELSE record_writes
              /\ ret' = Result("create_record_item", <<guid>>, sent, None)
    /\ record_calls' = record_calls \cup {guid}
    /\ ops' = ops + 1
    /\ UNCHANGED staged
    /\ NoBulk
    /\ UNCHANGED <<textVars, updates>>

record_item_exists(guid) ==
    /\ Idle
    /\ \E answered \in BOOLEAN :
          ret' = Result("record_item_exists", <<guid>>, answered,
                        IF answered THEN RecordItemExists(table, guid) ELSE None)
    /\ ops' = ops + 1
    /\ UNCHANGED <<table, record_calls, record_writes, staged>>
    /\ NoBulk
    /\ UNCHANGED <<textVars, updates>>

\* item.get(name).and_then(|av| av.as_s().ok()).map(String::from)
StringAttr(item, name) ==
    IF name \in DOMAIN item /\ item[name][1] = "S" THEN Some(item[name][2]) ELSE None

\* The ttl values of the model
TtlValues == {1000, 2000}

\* str::parse::<i64>().ok(), on the decimal strings of the model's ttl values
parse_i64(str) ==
    LET hits == {n \in TtlValues : ToString(n) = str}
    IN  IF hits = {} THEN None ELSE Some(CHOOSE n \in hits : TRUE)

\* item.get(name).and_then(|av| av.as_n().ok()).and_then(|n| n.parse().ok())
NumberAttr(item, name) ==
    IF name \in DOMAIN item /\ item[name][1] = "N" THEN parse_i64(item[name][2])
    ELSE None

\* Mutant of ExecutionItemFrom: a missing row gives an item with every field absent
ExecutionItemOrDefault(found, execution_id, guid) ==
    LET item == IF found # None THEN found[1] ELSE <<>>
    IN  [ok |-> TRUE,
         value |-> [execution_id |-> execution_id, guid |-> guid,
                    title |-> StringAttr(item, "title"),
                    description |-> StringAttr(item, "description"),
                    link |-> StringAttr(item, "link"),
                    summary |-> StringAttr(item, "summary"),
                    ttl |-> NumberAttr(item, "ttl"),
                    _type |-> StringAttr(item, "_TYPE"),
                    pub_date |-> StringAttr(item, "pub_date")]]

\* Mutant of ExecutionItemFrom: an attribute of the wrong type is a decode error
ExecutionItemStrict(found, execution_id, guid) ==
    IF found = None THEN [ok |-> FALSE, value |-> "Execution item not found"]
    ELSE IF \E name \in {"title", "description", "link", "summary", "_TYPE",
                          "pub_date"} :
                name \in DOMAIN found[1] /\ found[1][name][1] # "S"
         THEN [ok |-> FALSE, value |-> "Missing or invalid attribute"]
         ELSE ExecutionItemOrDefault(found, execution_id, guid)

\* What get_execution_item returns for the result.item of an answered GetItem
\* (repository.rs lines 213-247)
ExecutionItemFrom(found, execution_id, guid) ==
    IF found # None
    THEN LET item == found[1]
         IN  [ok |-> TRUE,
              value |-> [execution_id |-> execution_id, guid |-> guid,
                         title |-> StringAttr(item, "title"),
                         description |-> StringAttr(item, "description"),
                         link |-> StringAttr(item, "link"),
                         summary |-> StringAttr(item, "summary"),
                         ttl |-> NumberAttr(item, "ttl"),
                         _type |-> StringAttr(item, "_TYPE"),
                         pub_date |-> StringAttr(item, "pub_date")]]
    ELSE [ok |-> FALSE, value |-> "Execution item not found"]

get_execution_item(execution_id, guid) ==
    /\ Idle
    /\ \E answered \in BOOLEAN :
          LET result == ExecutionItemFrom(GetItem(table, S(execution_id), S(guid)),
                                          execution_id, guid)
          IN  ret' = IF answered
                     THEN Result("get_execution_item", <<execution_id, guid>>,
                                 result.ok, result.value)
                     ELSE Result("get_execution_item", <<execution_id, guid>>,
                                 FALSE, "Failed to get execution item")
    /\ ops' = ops + 1
    /\ UNCHANGED <<table, record_calls, record_writes, staged>>
    /\ NoBulk
    /\ UNCHANGED <<textVars, updates>>

(***************************************************************************)
(* The stages (bin/check_dynamodb.rs, bin/update_dynamodb.rs).             *)
(***************************************************************************)
\* The dedup-check stage: value is the should_process of its output
check_dynamodb(guid) ==
    /\ Idle
    /\ \E answered \in BOOLEAN :
          ret' = Result("check_dynamodb", <<guid>>, answered,
                        IF answered THEN ~RecordItemExists(table, guid) ELSE None)
    /\ ops' = ops + 1
    /\ UNCHANGED <<table, record_calls, record_writes, staged>>
    /\ NoBulk
    /\ UNCHANGED <<textVars, updates>>

\* The record stage
update_dynamodb(guid) ==
    /\ Idle
    /\ \E sent \in BOOLEAN :
          /\ table' = IF sent THEN PutItem(table, StagePut(guid)) ELSE table
          /\ record_writes' =
                IF sent
                THEN record_writes \cup {[by |-> "update_dynamodb", guid |-> guid,
                                          key |-> Key(StagePut(guid)),
                                          at |-> ops + 1]}
                ELSE record_writes
          /\ ret' = Result("update_dynamodb", <<guid>>, sent, None)
    /\ ops' = ops + 1
    /\ UNCHANGED <<record_calls, staged>>
    /\ NoBulk
    /\ UNCHANGED <<textVars, updates>>

(***************************************************************************)
(* The summarize stage (bin/summarize_bedrock.rs).                         *)
(***************************************************************************)
MAX_BSKY_GRAPHEMES == 290

\* The text the stage takes when the reply of the model holds none
NoSummaryGenerated ==
    <<"N", "o", Space, "s", "u", "m", "m", "a", "r", "y", Space,
      "g", "e", "n", "e", "r", "a", "t", "e", "d">>

\* while last_space_index > 0 && graphemes[last_space_index - 1] != " ":
\* the number of graphemes up to and with the last space, 0 without a space
LastSpaceEnd(v) ==
    LET hits == {i \in 1..Len(v) : v[i] = <<Space>>}
    IN  IF hits = {} THEN 0 ELSE CHOOSE i \in hits : \A j \in hits : j <= i

\* The trimming of the summary (summarize_bedrock.rs lines 181-211)
TrimSummary(text) ==
    LET num_graphemes == Len(graphemes(text))
    IN  IF num_graphemes > MAX_BSKY_GRAPHEMES
        THEN LET popped == VecTruncate(graphemes(text), MAX_BSKY_GRAPHEMES - 1)
                 last_space_index == LastSpaceEnd(popped)
                 kept == IF last_space_index > 0
                         THEN VecTruncate(popped, last_space_index)
                         ELSE popped
             IN  join(kept) \o <<Ellipsis>>
        ELSE text

\* A text with whitespace at its end
PaddedText == <<Letter, Space, Letter, Space>>

\* The outcomes of invoke_model: the call or the parse of its body fails, the
\* body holds no text at content[0].text, or it holds a text
ModelReplies ==
    {[failed |-> TRUE, text |-> None],
     [failed |-> FALSE, text |-> None],
     [failed |-> FALSE, text |-> Some(SummaryText)],
     [failed |-> FALSE, text |-> Some(PaddedText)]}

summarize_bedrock(execution_id, guid, enable_ai_summary) ==
    /\ Idle
    /\ IF ~enable_ai_summary
       THEN /\ table' = table
            /\ ret' = Result("summarize_bedrock",
                             <<execution_id, guid, enable_ai_summary, None>>,
                             TRUE, None)
       ELSE \E answered \in BOOLEAN, reply \in ModelReplies, sent \in BOOLEAN :
               LET found == GetItem(table, S(execution_id), S(guid))
                   error ==
                       IF ~answered THEN Some("Failed to get item from DynamoDB")
                       ELSE IF found = None THEN Some("Item not found in DynamoDB")
                       ELSE IF StringAttr(found[1], "description") = None
                            THEN Some("Description not found in item")
                       ELSE IF reply.failed THEN Some("invoke_model failed")
                       ELSE IF ~sent
                            THEN Some("Failed to update item in DynamoDB with summary")
                       ELSE None
                   text == IF reply.text = None THEN NoSummaryGenerated
                           ELSE reply.text[1]
                   invoked == /\ answered /\ found # None
                              /\ StringAttr(found[1], "description") # None
               IN  /\ table' = IF error = None
                                THEN UpdateItemSet(table, S(execution_id), S(guid),
                                                   "summary", S(TrimSummary(text)))
                                ELSE table
                   /\ ret' = Result("summarize_bedrock",
                                    <<execution_id, guid, enable_ai_summary,
                                      IF invoked THEN Some(reply) ELSE None>>,
                                    error = None, error)
    /\ ops' = ops + 1
    /\ UNCHANGED <<record_calls, record_writes, staged>>
    /\ NoBulk
    /\ UNCHANGED <<textVars, updates>>

(***************************************************************************)
(* Bulk operations.  BatchWriteItem takes the write requests of one chunk; *)
(* each write is applied on its own.  The response either reports the      *)
(* writes the table did not process, or the request fails as a whole, in   *)
(* which case the table may have applied none of the writes or all of them.*)
(***************************************************************************)
ChunkSize == 25

\* Mutant of Chunk: a chunk runs one element into the next
ChunkOneTooLong(v, k) ==
    SubSeq(v, ChunkSize * (k - 1) + 1, Min(ChunkSize * k + 1, Len(v)))

\* slice::chunks(ChunkSize): the k-th chunk, k from 1
Chunk(v, k) == SubSeq(v, ChunkSize * (k - 1) + 1, Min(ChunkSize * k, Len(v)))

\* The responses to a request of n writes: unprocessed holds the positions of
\* the writes that were not applied.
Responses(n) ==
    {[error |-> FALSE, unprocessed |-> (n - u + 1)..n] : u \in 0..n}
    \cup {[error |-> TRUE, unprocessed |-> 1..n], [error |-> TRUE, unprocessed |-> {}]}

\* Mutant of RequestFailed: the error of the send is dropped
IgnoreSendError(response) == ~response.error /\ response.unprocessed # {}

\* Mutant of RequestFailed: unprocessed_items is not looked at
SendFailed(response) == response.error

\* What makes a bulk operation return Err after a request: the send failed
\* (the ? on the send), or unprocessed_items is not empty.
RequestFailed(response) == response.error \/ response.unprocessed # {}

ApplyWrite(t, write) ==
    IF write.kind = "put" THEN PutItem(t, write.item) ELSE DeleteKey(t, write.key)

RECURSIVE ApplyWrites(_, _, _, _)
ApplyWrites(t, writes, unprocessed, i) ==
    IF i > Len(writes) THEN t
    ELSE ApplyWrites(IF i \in unprocessed THEN t ELSE ApplyWrite(t, writes[i]),
                     writes, unprocessed, i + 1)

\* The write requests create_execution_items builds for a chunk
PutRequests(chunk) ==
    [i \in 1..Len(chunk) |-> [kind |-> "put", item |-> ExecutionPut(chunk[i])]]

\* The write requests delete_items_by_execution_id builds for a chunk of keys
DeleteRequests(chunk) ==
    [i \in 1..Len(chunk) |-> [kind |-> "delete", key |-> chunk[i]]]

create_execution_items_begin(items) ==
    /\ Idle
    /\ pc' = "create_chunks"
    /\ call' = [op |-> "create_execution_items", items |-> items, before |-> table]
    /\ chunk_index' = 0
    /\ requests' = <<>>
    /\ queries' = <<>>
    /\ items_to_delete' = <<>>
    /\ last_evaluated_key' = None
    /\ total_deleted' = 0
    /\ ops' = ops + 1
    /\ UNCHANGED <<table, ret, record_calls, record_writes, staged>>
    /\ UNCHANGED <<textVars, updates>>

\* One turn of `for chunk in items.chunks(25)`, or the Ok(()) after the loop
create_execution_items_step ==
    /\ pc = "create_chunks"
    /\ IF ChunkSize * chunk_index >= Len(call.items)
       THEN /\ pc' = "idle"
            /\ ret' = Result("create_execution_items", <<>>, TRUE, None)
            /\ staged' = IF staged = <<>> THEN <<call.items>>
                          ELSE <<staged[Len(staged)], call.items>>
            /\ UNCHANGED <<table, requests, chunk_index>>
       ELSE LET writes == PutRequests(Chunk(call.items, chunk_index + 1))
            IN  \E response \in Responses(Len(writes)) :
                   /\ table' = ApplyWrites(table, writes, response.unprocessed, 1)
                   /\ requests' = Append(requests, [writes |-> writes,
                                                    response |-> response])
                   /\ chunk_index' = chunk_index + 1
                   /\ IF RequestFailed(response)
                      THEN /\ pc' = "idle"
                           /\ ret' = Result("create_execution_items", <<>>, FALSE,
                                            IF response.error
                                            THEN "Failed to batch write items"
                                            ELSE "Some items were not processed")
                      ELSE UNCHANGED <<pc, ret>>
                   /\ UNCHANGED staged
    /\ UNCHANGED <<ops, call, record_calls, record_writes, queries, items_to_delete,
                   last_evaluated_key, total_deleted>>
    /\ UNCHANGED <<textVars, updates>>

(***************************************************************************)
(* The handler's bulk write (dynamodb_handler.rs): one dedup row per item   *)
(* identifier, in chunks of 25.                                            *)
(***************************************************************************)
\* The item batch_write_items puts for an ItemIdentifier
HandlerPut(item) ==
    ("PK" :> S("guid-" \o item.guid)) @@ ("SK" :> S("A"))
    @@ ("execution_id" :> S(item.execution_id))

\* The write requests batch_write_items builds for a chunk
HandlerPutRequests(chunk) ==
    [i \in 1..Len(chunk) |-> [kind |-> "put", item |-> HandlerPut(chunk[i])]]

batch_write_items_begin(items) ==
    /\ Idle
    /\ pc' = "handler_chunks"
    /\ call' = [op |-> "batch_write_items", items |-> items]
    /\ chunk_index' = 0
    /\ requests' = <<>>
    /\ queries' = <<>>
    /\ items_to_delete' = <<>>
    /\ last_evaluated_key' = None
    /\ total_deleted' = 0
    /\ ops' = ops + 1
    /\ UNCHANGED <<table, ret, record_calls, record_writes, staged>>
    /\ UNCHANGED <<textVars, updates>>

\* One turn of `for chunk in items.chunks(25)`, or the Ok(()) after the loop:
\* only the error of the send ends the loop, the response is dropped
batch_write_items_step ==
    /\ pc = "handler_chunks"
    /\ IF ChunkSize * chunk_index >= Len(call.items)
       THEN /\ pc' = "idle"
            /\ ret' = Result("batch_write_items", <<>>, TRUE, None)
            /\ UNCHANGED <<table, requests, chunk_index>>
       ELSE LET writes == HandlerPutRequests(Chunk(call.items, chunk_index + 1))
            IN  \E response \in Responses(Len(writes)) :
                   /\ table' = ApplyWrites(table, writes, response.unprocessed, 1)
                   /\ requests' = Append(requests, [writes |-> writes,
                                                    response |-> response])
                   /\ chunk_index' = chunk_index + 1
                   /\ IF response.error
                      THEN /\ pc' = "idle"
                           /\ ret' = Result("batch_write_items", <<>>, FALSE,
                                            "batch_write_item failed")
                      ELSE UNCHANGED <<pc, ret>>
    /\ UNCHANGED <<ops, call, record_calls, record_writes, staged, queries,
                   items_to_delete, last_evaluated_key, total_deleted>>
    /\ UNCHANGED <<textVars, updates>>

(***************************************************************************)
(* Query.  The rows of a partition come back in sort-key order, a page at  *)
(* a time.  The table cuts the pages (the rows of an invocation's pages    *)
(* are taken to be of one size, so its pages hold the same number of       *)
(* rows) and may hand out a continuation token with the last rows of the   *)
(* partition.                                                              *)
(***************************************************************************)
BigGuid(i) == "item-" \o (IF i < 10 THEN "0" ELSE "") \o ToString(i)

\* The sort keys of the model, in the table's (byte) order
SortKeyOrder == <<"A", "g1">> \o [i \in 1..MaxItems |-> BigGuid(i)]

Rank(sk) == CHOOSE i \in 1..Len(SortKeyOrder) : SortKeyOrder[i] = sk

QueryPage(t, pk, start, limit, eager) ==
    LET partition == SelectSeq(SortKeyOrder,
                               LAMBDA sk : GetItem(t, S(pk), S(sk)) # None)
        rest == IF start = None THEN partition
                ELSE SelectSeq(partition,
                               LAMBDA sk : Rank(sk) > Rank(start[1][2][2]))
        page == SubSeq(rest, 1, Min(limit, Len(rest)))
        items == [i \in 1..Len(page) |-> GetItem(t, S(pk), S(page[i]))[1]]
    IN  [items |-> items,
         last_evaluated_key |->
             IF page # <<>> /\ (Len(rest) > Len(page) \/ eager)
             THEN Some(Key(items[Len(items)]))
             ELSE None]

\* Mutant of ExclusiveStartKey: every query starts at the head of the partition
NoExclusiveStartKey(key) == None

\* if let Some(key) = last_evaluated_key { query.set_exclusive_start_key(Some(key)) }
ExclusiveStartKey(key) == key

\* Mutant of QueryDone: the loop ends after the first page
FirstPageOnly(key) == TRUE

\* if last_evaluated_key.is_none() { break; }
QueryDone(key) == key = None

\* Mutant of CountDeleted: counts the requests, not the keys
CountRequests(total, chunk) == total + 1

\* total_deleted += chunk.len() as u32
CountDeleted(total, chunk) == total + Len(chunk)

delete_items_by_execution_id_begin(execution_id) ==
    /\ Idle
    /\ pc' = "delete_query"
    /\ \E limit \in 1..MaxPage :
          call' = [op |-> "delete_items_by_execution_id",
                   execution_id |-> execution_id, before |-> table, limit |-> limit]
    /\ items_to_delete' = <<>>
    /\ last_evaluated_key' = None
    /\ total_deleted' = 0
    /\ chunk_index' = 0
    /\ requests' = <<>>
    /\ queries' = <<>>
    /\ ops' = ops + 1
    /\ UNCHANGED <<table, ret, record_calls, record_writes, staged>>
    /\ UNCHANGED <<textVars, updates>>

\* One turn of the query loop
delete_items_by_execution_id_query ==
    /\ pc = "delete_query"
    /\ \E answered \in BOOLEAN, eager \in BOOLEAN :
          IF ~answered
          THEN /\ pc' = "idle"
               /\ ret' = Result("delete_items_by_execution_id", <<call.execution_id>>,
                                FALSE, "Failed to query items for deletion")
               /\ queries' = Append(queries,
                                    [start |-> ExclusiveStartKey(last_evaluated_key),
                                     answered |-> FALSE])
               /\ UNCHANGED <<items_to_delete, last_evaluated_key>>
          ELSE LET start == ExclusiveStartKey(last_evaluated_key)
                   result == QueryPage(table, call.execution_id, start,
                                       call.limit, eager)
                   keys == [i \in 1..Len(result.items) |-> Key(result.items[i])]
               IN  /\ items_to_delete' = items_to_delete \o keys
                   /\ queries' = Append(queries, [start |-> start,
                                                   answered |-> TRUE,
                                                   result |-> result])
                   /\ last_evaluated_key' = result.last_evaluated_key
                   /\ pc' = IF QueryDone(result.last_evaluated_key)
                            THEN "delete_chunks" ELSE "delete_query"
                   /\ ret' = ret
    /\ UNCHANGED <<table, ops, call, chunk_index, requests, total_deleted,
                   record_calls, record_writes, staged>>
    /\ UNCHANGED <<textVars, updates>>

\* One turn of `for chunk in items_to_delete.chunks(25)`, or the
\* Ok(total_deleted) after the loop
delete_items_by_execution_id_step ==
    /\ pc = "delete_chunks"
    /\ IF ChunkSize * chunk_index >= Len(items_to_delete)
       THEN /\ pc' = "idle"
            /\ ret' = Result("delete_items_by_execution_id", <<call.execution_id>>,
                             TRUE, total_deleted)
            /\ UNCHANGED <<table, requests, chunk_index, total_deleted>>
       ELSE LET chunk == Chunk(items_to_delete, chunk_index + 1)
                writes == DeleteRequests(chunk)
            IN  \E response \in Responses(Len(writes)) :
                   /\ table' = ApplyWrites(table, writes, response.unprocessed, 1)
                   /\ requests' = Append(requests, [writes |-> writes,
                                                    response |-> response])
                   /\ chunk_index' = chunk_index + 1
                   /\ total_deleted' = IF response.error THEN total_deleted
                                       ELSE CountDeleted(total_deleted, chunk)
                   /\ IF RequestFailed(response)
                      THEN /\ pc' = "idle"
                           /\ ret' = Result("delete_items_by_execution_id",
                                            <<call.execution_id>>, FALSE,
                                            IF response.error
                                            THEN "Failed to delete items"
                                            ELSE "Some items were not deleted")
                      ELSE UNCHANGED <<pc, ret>>
    /\ UNCHANGED <<ops, call, queries, items_to_delete, last_evaluated_key,
                   record_calls, record_writes, staged>>
    /\ UNCHANGED <<textVars, updates>>

(***************************************************************************)
(* Specifications.                                                         *)
(***************************************************************************)
\* Nothing has been called yet
NothingCalled ==
    /\ ret = Result("none", <<>>, TRUE, None)
    /\ ops = 0
    /\ record_calls = {}
    /\ record_writes = {}
    /\ staged = <<>>
    /\ pc = "idle"
    /\ call = [op |-> "none"]
    /\ chunk_index = 0
    /\ requests = <<>>
    /\ queries = <<>>
    /\ items_to_delete = <<>>
    /\ last_evaluated_key = None
    /\ total_deleted = 0
    /\ updates = NoUpdates

TableInit == table = {} /\ NothingCalled

\* The batches the small model stages: none, one item, two items of a run
SmallBatches ==
    {<<>>}
    \cup {<<SampleItem(e, "A", "v2")>> : e \in ExecutionIds}
    \cup {<<SampleItem("run-1", "g1", "v1"), SampleItem("run-1", "A", "sparse")>>}

\* The repository and the stages on one table, any operation after any other
Init == TextIdle /\ TableInit

Next ==
    \/ \E e \in ExecutionIds, g \in Guids, v \in {"v1", "sparse"} :
          create_execution_item(SampleItem(e, g, v))
    \/ \E items \in SmallBatches : create_execution_items_begin(items)
    \/ create_execution_items_step
    \/ \E e \in ExecutionIds, g \in Guids :
          update_execution_item_summary(e, g, SummaryText)
    \/ \E e \in ExecutionIds : delete_items_by_execution_id_begin(e)
    \/ delete_items_by_execution_id_query
    \/ delete_items_by_execution_id_step
    \/ \E g \in Guids : create_record_item(g)
    \/ \E g \in Guids : record_item_exists(g)
    \/ \E g \in Guids : check_dynamodb(g)
    \/ \E g \in Guids : update_dynamodb(g)

Spec == Init /\ [][Next]_vars

\* truncate_to_word on every text and budget within the bounds
TextNext == Truncate

TextSpecInit == TextInit /\ TableInit

TextSpec == TextSpecInit /\ [][TextNext]_vars

\* One invocation of create_execution_items on an empty table, with 0 to
\* MaxItems items of one run
BatchItem(i) == SampleItem("run-1", BigGuid(i), IF i % 2 = 1 THEN "v1" ELSE "v2")

BatchNext ==
    \/ \E n \in 0..MaxItems :
          ops = 0 /\ create_execution_items_begin([i \in 1..n |-> BatchItem(i)])
    \/ create_execution_items_step

BatchSpec == Init /\ [][BatchNext]_vars

\* The table after a run has staged n items, another run one item, and the
\* record stage has recorded a guid
StagedTable(n) ==
    {ExecutionPut(BatchItem(i)) : i \in 1..n}
    \cup {ExecutionPut(SampleItem("g1", "A", "v2")), StagePut("g1")}

\* One invocation of delete_items_by_execution_id on a table with 0 to
\* MaxItems staged items of the run
DeleteInit ==
    /\ TextIdle
    /\ table \in {StagedTable(n) : n \in 0..MaxItems}
    /\ NothingCalled

DeleteNext ==
    \/ \E e \in ExecutionIds : ops = 0 /\ delete_items_by_execution_id_begin(e)
    \/ delete_items_by_execution_id_query
    \/ delete_items_by_execution_id_step

DeleteSpec == DeleteInit /\ [][DeleteNext]_vars

\* The staging operations of the repository on one table, any operation
\* after any other, with the point read
StagingNext ==
    \/ \E g \in Guids, v \in {"v1", "sparse"} :
          create_execution_item(SampleItem("run-1", g, v))
    \/ \E items \in SmallBatches : create_execution_items_begin(items)
    \/ create_execution_items_step
    \/ \E g \in Guids : update_execution_item_summary("run-1", g, SummaryText)
    \/ \E g \in Guids, enable_ai_summary \in BOOLEAN :
          summarize_bedrock("run-1", g, enable_ai_summary)
    \/ \E e \in ExecutionIds, g \in Guids : get_execution_item(e, g)
    \/ delete_items_by_execution_id_begin("run-1")
    \/ delete_items_by_execution_id_query
    \/ delete_items_by_execution_id_step

StagingSpec == Init /\ [][StagingNext]_vars

\* Two callers of update_execution_item_summary at once, on a table with two
\* staged rows of a run and a dedup row
ConcurrentTable ==
    {ExecutionPut(SampleItem("run-1", "g1", "v1")),
     ExecutionPut(SampleItem("run-1", "A", "v2")), StagePut("g1")}

ConcurrentInit == TextIdle /\ table = ConcurrentTable /\ NothingCalled

ConcurrentNext ==
    \/ \E c \in Callers, g \in Guids, text \in {SummaryText, PaddedText} :
          update_execution_item_summary_send(c, "run-1", g, text)
    \/ \E c \in Callers : update_execution_item_summary_receive(c)

ConcurrentSpec == ConcurrentInit /\ [][ConcurrentNext]_vars

\* The values an attribute of a stored row can have for the decoding of
\* get_execution_item: a string, a number that is an i64, a number that is
\* none, or no attribute (None)
StoredValues(text) == {None, Some(S(text)), Some(N("1000")), Some(N("1.5"))}

\* The rows under the key ("run-1", "g1"), whoever wrote them: every optional
\* attribute missing, of the type the decoding expects, or of another type
DecodeRows ==
    {  OptionalAttr("title", title, title[1])
       @@ OptionalAttr("description", description, description[1])
       @@ OptionalAttr("link", link, link[1])
       @@ OptionalAttr("summary", sum, sum[1])
       @@ OptionalAttr("ttl", ttl, ttl[1])
       @@ OptionalAttr("_TYPE", kind, kind[1])
       @@ OptionalAttr("pub_date", pub_date, pub_date[1])
       @@ ("PK" :> S("run-1")) @@ ("SK" :> S("g1")) :
         title \in {None, Some(S("t1")), Some(N("1000"))},
         description \in {None, Some(S("d1"))},
         link \in {None, Some(S("l1")), Some(N("1000"))},
         sum \in {None, Some(S(SummaryText)), Some(N("1000"))},
         ttl \in StoredValues("1000"),
         kind \in {None, Some(S("ExecutionItem")), Some(N("1000"))},
         pub_date \in {None, Some(S("p1"))} }

\* get_execution_item on a table that holds one row of any shape
DecodeInit ==
    /\ TextIdle
    /\ table \in {{row} : row \in DecodeRows}
    /\ NothingCalled

DecodeNext == \E g \in Guids : get_execution_item("run-1", g)

DecodeSpec == DecodeInit /\ [][DecodeNext]_vars

\* The item identifiers the handler's bulk write is called with
IdentifierLists ==
    {<<>>, <<[execution_id |-> "run-1", guid |-> "g1"]>>,
     <<[execution_id |-> "run-1", guid |-> "g1"],
       [execution_id |-> "run-1", guid |-> "A"]>>}

\* The bulk-write paths of the source on one table
BulkNext ==
    \/ \E items \in SmallBatches : create_execution_items_begin(items)
    \/ create_execution_items_step
    \/ \E e \in ExecutionIds : delete_items_by_execution_id_begin(e)
    \/ delete_items_by_execution_id_query
    \/ delete_items_by_execution_id_step
    \/ \E items \in IdentifierLists : batch_write_items_begin(items)
    \/ batch_write_items_step

BulkSpec == Init /\ [][BulkNext]_vars

\* The dedup operations of the repository and the record stage, next to
\* single staging writes, on one table
DedupNext ==
    \/ \E g \in Guids : create_record_item(g)
    \/ \E g \in Guids : record_item_exists(g)
    \/ \E g \in Guids : update_dynamodb(g)
    \/ \E e \in ExecutionIds, g \in Guids :
          create_execution_item(SampleItem(e, g, "v1"))
    \/ \E e \in ExecutionIds, g \in Guids :
          update_execution_item_summary(e, g, SummaryText)

DedupSpec == Init /\ [][DedupNext]_vars

\* The stages of the pipeline on one table, for one run: the fetch stage
\* stages the items of the feed (get_rss_items.rs), the dedup-check stage and
\* the record stage take a guid of the feed.
RunIds == {"run-1"}

get_rss_items(execution_id, feed) ==
    create_execution_items_begin(
        [i \in 1..Len(feed) |-> SampleItem(execution_id, feed[i], "v2")])

Feeds == {<<>>, <<"g1">>, <<"g1", "A">>}

\* The guids of the events the record stage is invoked with: the stage takes
\* the guid of its input as it comes
EventGuids == Guids \cup {""}

PipelineNext ==
    \/ \E e \in RunIds, feed \in Feeds : get_rss_items(e, feed)
    \/ create_execution_items_step
    \/ \E g \in Guids : check_dynamodb(g)
    \/ \E e \in RunIds, g \in Guids, enable_ai_summary \in BOOLEAN :
          summarize_bedrock(e, g, enable_ai_summary)
    \/ \E g \in EventGuids : update_dynamodb(g)

PipelineSpec == Init /\ [][PipelineNext]_vars

(***************************************************************************)
(* Properties.                                                             *)
(***************************************************************************)
\* The record stage has completed successfully for guid g
Recorded(g) == \E w \in record_writes : w.by = "update_dynamodb" /\ w.guid = g

\* create_record_item has returned Ok for guid g
Created(g) == \E w \in record_writes : w.by = "create_record_item" /\ w.guid = g

\* C1 (as claimed; PipelineSpec): a successful dedup check of guid g returns
\* should_process = false once the record stage has completed for g, and
\* should_process = true while g has never been recorded.
C1_PipelineDedup ==
    (ret.op = "check_dynamodb" /\ ret.ok) =>
        (ret.value = ~Recorded(ret.args[1]))

\* C2 (as claimed; Spec): record_item_exists(g) returns false while
\* create_record_item has not been called for g, and true once a
\* create_record_item for g has succeeded, whatever other repository
\* operations ran.
C2_DedupCorrectness ==
    (ret.op = "record_item_exists" /\ ret.ok) =>
        /\ (ret.args[1] \notin record_calls => ret.value = FALSE)
        /\ (Created(ret.args[1]) => ret.value = TRUE)

\* C3 (as claimed; Spec): every dedup row written has the key
\* ("guid-" + guid, "A"), and no dedup row shares its key with a staging row
\* (execution_id, guid) of any run identifier and guid.
C3_DisjointKeySpaces ==
    /\ \A w \in record_writes : w.key = <<S("guid-" \o w.guid), S("A")>>
    /\ \A w \in record_writes, e \in ExecutionIds, g \in Guids :
          w.key # <<S(e), S(g)>>

\* A step of a dedup write: create_record_item or the record stage
RecordStep ==
    /\ pc = "idle" /\ pc' = "idle" /\ ops' = ops + 1
    /\ ret'.op \in {"create_record_item", "update_dynamodb"}

\* C4 (as claimed; Spec): no step of a staging operation (createOne,
\* createBatch, updateSummary, deleteByRun) changes or removes a dedup row
\* that was written.
C4_RecordRowsUntouched ==
    [][~RecordStep =>
          \A w \in record_writes :
              GetItem(table', w.key[1], w.key[2]) = GetItem(table, w.key[1], w.key[2])]_vars

\* The grapheme clusters of the trimmed input
TrimmedGraphemes == graphemes(trim(summary))

\* C5 (TextSpec): for every text and every budget > 0 the result has at most
\* max_graphemes grapheme clusters.
C5_BoundInvariant ==
    (tpc = "returned" /\ max_graphemes > 0) =>
        Len(graphemes(truncated)) <= max_graphemes

\* A text over the budget whose result fills the budget exactly
C5_Witness ==
    /\ tpc = "returned" /\ max_graphemes > 0
    /\ Len(TrimmedGraphemes) > max_graphemes
    /\ Len(graphemes(truncated)) = max_graphemes

\* C6 (TextSpec): a text whose trimmed grapheme count is within the budget
\* comes back as the trimmed text, with no ellipsis added.
C6_IdentityUnderLimit ==
    (tpc = "returned" /\ Len(TrimmedGraphemes) <= max_graphemes) =>
        truncated = trim(summary)

\* A text with whitespace around it that fills the budget exactly
C6_Witness ==
    /\ tpc = "returned"
    /\ max_graphemes > 0 /\ Len(TrimmedGraphemes) = max_graphemes
    /\ trim(summary) # summary
    /\ truncated = trim(summary)

\* C7 (TextSpec): with a budget of 0 the result is the trimmed text, and a
\* text that is empty after trimming gives the empty string for every budget.
C7_ZeroBudget ==
    tpc = "returned" =>
        /\ (max_graphemes = 0 => truncated = trim(summary))
        /\ (trim(summary) = <<>> => truncated = <<>>)

\* A budget of 0 and a text of several clusters, which comes back whole
C7_Witness ==
    /\ tpc = "returned" /\ max_graphemes = 0
    /\ Len(TrimmedGraphemes) > 1
    /\ truncated = trim(summary) /\ truncated # summary

\* The positions (from 1) of the spaces at an index > 0 among the first
\* max_graphemes clusters of the trimmed text
InteriorSpaces ==
    {i \in 2..Min(max_graphemes, Len(TrimmedGraphemes)) :
        TrimmedGraphemes[i] = <<Space>>}

\* C8 (TextSpec): when the text is shortened and its first max_graphemes
\* clusters hold a space at an index > 0, the result is a prefix of the
\* trimmed text followed by the ellipsis; the prefix ends before the last
\* such space, has its trailing spaces removed, and is followed by a space in
\* the trimmed text.
C8_WordBoundary ==
    (tpc = "returned" /\ max_graphemes > 0
        /\ Len(TrimmedGraphemes) > max_graphemes /\ InteriorSpaces # {}) =>
        LET g == TrimmedGraphemes
            out == graphemes(truncated)
            kept == SubSeq(out, 1, Len(out) - 1)
            last_space == CHOOSE i \in InteriorSpaces : \A j \in InteriorSpaces : j <= i
        IN  /\ out # <<>> /\ out[Len(out)] = <<Ellipsis>>
            /\ Len(kept) < last_space
            /\ kept = SubSeq(g, 1, Len(kept))
            /\ \A i \in (Len(kept) + 1)..last_space : g[i] = <<Space>>
            /\ kept # <<>> /\ kept[Len(kept)] # <<Space>>

\* A shortened text with two words inside the budget: the cut is at the
\* second space, not the first
C8_Witness ==
    /\ tpc = "returned" /\ max_graphemes > 0
    /\ Len(TrimmedGraphemes) > max_graphemes
    /\ Cardinality(InteriorSpaces) >= 2
    /\ \E i \in InteriorSpaces :
          Len(graphemes(truncated)) > i /\ graphemes(truncated)[i] = <<Space>>

RECURSIVE Concat(_)
Concat(seqs) == IF seqs = <<>> THEN <<>> ELSE Head(seqs) \o Concat(Tail(seqs))

\* create_execution_items has returned
CreateBatchReturned == pc = "idle" /\ ret.op = "create_execution_items"

\* C9 (BatchSpec): create_execution_items with n items and no failing
\* request sends ceil(n/25) bulk-write requests of at most 25 puts each, which
\* together are the puts of the items in input order, each once; 30 items
\* give requests of 25 and 5, no item gives no request.
C9_BatchChunking ==
    (CreateBatchReturned /\ ret.ok) =>
        LET n == Len(call.items)
            sent == [j \in 1..Len(requests) |-> requests[j].writes]
        IN  /\ 25 * Len(sent) >= n /\ 25 * (Len(sent) - 1) < n
            /\ \A j \in 1..Len(sent) : Len(sent[j]) \in 1..25
            /\ Concat(sent) =
                  [i \in 1..n |-> [kind |-> "put", item |-> ExecutionPut(call.items[i])]]
            /\ (n = 30 => Len(sent) = 2 /\ Len(sent[1]) = 25 /\ Len(sent[2]) = 5)
            /\ (n = 0 => sent = <<>>)

\* 30 items staged with two requests, the second of 5 puts
C9_Witness ==
    /\ CreateBatchReturned /\ ret.ok
    /\ Len(call.items) = 30
    /\ Len(requests) = 2 /\ Len(requests[2].writes) = 5

\* C10 (BatchSpec): a bulk-write request of create_execution_items that
\* fails or reports unprocessed rows is the last request sent (no later chunk,
\* no retry), the operation has returned Err, the requests sent are the
\* chunks 1..k in order, and every row of the chunks before k is in the table.
C10_PartialFailure ==
    \A k \in 1..Len(requests) :
        (call.op = "create_execution_items"
            /\ (requests[k].response.error \/ requests[k].response.unprocessed # {})) =>
            /\ CreateBatchReturned /\ ~ret.ok
            /\ k = Len(requests)
            /\ \A j \in 1..k :
                  requests[j].writes =
                      [i \in 1..Min(25, Len(call.items) - 25 * (j - 1)) |->
                          [kind |-> "put",
                           item |-> ExecutionPut(call.items[25 * (j - 1) + i])]]
            /\ \A j \in 1..(k - 1) :
                  \A i \in 1..Len(requests[j].writes) :
                      requests[j].writes[i].item \in table

\* The second of three chunks reports unprocessed rows
C10_Witness ==
    /\ CreateBatchReturned /\ ~ret.ok
    /\ Len(call.items) > 50
    /\ Len(requests) = 2
    /\ ~requests[2].response.error /\ requests[2].response.unprocessed # {}
    /\ \A i \in 1..25 : requests[1].writes[i].item \in table

\* A step in which update_execution_item_summary(e, g, _) runs and returns
UpdateSummaryStep(e, g) ==
    /\ pc = "idle" /\ pc' = "idle" /\ ops' = ops + 1
    /\ ret'.op = "update_execution_item_summary" /\ ret'.args = <<e, g>>

\* C11 (as claimed; Spec): update_execution_item_summary on a key that has no
\* row returns an error and leaves the table unchanged: no row is created.
C11_UpdateOnly ==
    [][\A e \in ExecutionIds, g \in Guids :
          (UpdateSummaryStep(e, g) /\ GetItem(table, S(e), S(g)) = None) =>
              (~ret'.ok /\ table' = table)]_vars

\* The sort keys of the model
SortKeys == {SortKeyOrder[i] : i \in 1..Len(SortKeyOrder)}

\* delete_items_by_execution_id has returned
DeleteReturned == pc = "idle" /\ ret.op = "delete_items_by_execution_id"

\* C12 (DeleteSpec): once delete_items_by_execution_id(e) has returned Ok,
\* get_execution_item(e, g) gives not-found for every guid g, the count
\* returned is the number of rows the partition e held before the call (30
\* rows give 30), and the rows of every other partition are as before.
C12_DeletionCompleteness ==
    (DeleteReturned /\ ret.ok) =>
        LET e == call.execution_id
            existed == {r \in call.before : r.PK = S(e)}
        IN  /\ \A g \in SortKeys :
                  ExecutionItemFrom(GetItem(table, S(e), S(g)), e, g) =
                      [ok |-> FALSE, value |-> "Execution item not found"]
            /\ ret.value = Cardinality(existed)
            /\ (Cardinality(existed) = 30 => ret.value = 30)
            /\ {r \in table : r.PK # S(e)} = {r \in call.before : r.PK # S(e)}

\* A run of 30 rows deleted with two bulk requests, next to rows of other
\* partitions
C12_Witness ==
    /\ DeleteReturned /\ ret.ok /\ ret.value = 30
    /\ Cardinality({r \in call.before : r.PK = S(call.execution_id)}) = 30
    /\ Len(requests) = 2
    /\ table # {} /\ \A r \in table : r.PK # S(call.execution_id)

\* get_execution_item has returned
GetReturned == pc = "idle" /\ ret.op = "get_execution_item"

\* C13 (StagingSpec): get_execution_item on a key that has no row returns an
\* error, whatever else the table holds; it returns Ok only for a row that
\* exists.
C13_GetNotFound ==
    GetReturned =>
        (GetItem(table, S(ret.args[1]), S(ret.args[2])) = None => ~ret.ok)

\* A point read that was answered on a key without a row, next to rows of
\* other keys
C13_Witness ==
    /\ GetReturned /\ ~ret.ok /\ ret.value = "Execution item not found"
    /\ GetItem(table, S(ret.args[1]), S(ret.args[2])) = None
    /\ table # {}

\* A step in which get_execution_item(e, g) runs and returns
GetStep(e, g) ==
    /\ pc = "idle" /\ pc' = "idle" /\ ops' = ops + 1
    /\ ret'.op = "get_execution_item" /\ ret'.args = <<e, g>>

\* The positions of the key (e, g) in a sequence of items
Positions(items, e, g) ==
    {i \in 1..Len(items) : items[i].execution_id = e /\ items[i].guid = g}

\* The last two create_execution_items calls returned Ok, both held the key
\* (e, g), and the second has just returned
StagedTwice(e, g) ==
    /\ pc = "idle" /\ ret.op = "create_execution_items" /\ ret.ok
    /\ Len(staged) = 2
    /\ Positions(staged[1], e, g) # {} /\ Positions(staged[2], e, g) # {}

\* C14 (StagingSpec): a get_execution_item that follows two completed
\* create_execution_items calls holding the same key returns the title,
\* description, link, ttl and pub_date of the second call's item, unless the
\* read itself fails.
C14_LastWriteWins ==
    [][\A e \in ExecutionIds, g \in Guids :
          (GetStep(e, g) /\ StagedTwice(e, g)) =>
              LET second == staged[2][CHOOSE i \in Positions(staged[2], e, g) : TRUE]
              IN  IF ret'.ok
                  THEN /\ ret'.value.title = second.title
                       /\ ret'.value.description = second.description
                       /\ ret'.value.link = second.link
                       /\ ret'.value.ttl = second.ttl
                       /\ ret'.value.pub_date = second.pub_date
                  ELSE ret'.value = "Failed to get execution item"]_vars

\* A point read after two calls that staged the same key with different
\* fields returns the second call's fields
C14_Witness ==
    /\ GetReturned /\ ret.ok
    /\ Len(staged) = 2
    /\ \E i \in 1..Len(staged[1]), j \in 1..Len(staged[2]) :
          /\ staged[1][i].execution_id = ret.args[1] /\ staged[1][i].guid = ret.args[2]
          /\ staged[2][j].execution_id = ret.args[1] /\ staged[2][j].guid = ret.args[2]
          /\ staged[1][i].title # staged[2][j].title
          /\ staged[2][j].ttl # None
          /\ ret.value.title = staged[2][j].title
          /\ ret.value.ttl = staged[2][j].ttl
    /\ ops = 3

\* A step in which create_record_item(g) runs and returns
CreateRecordStep(g) ==
    /\ pc = "idle" /\ pc' = "idle" /\ ops' = ops + 1
    /\ ret'.op = "create_record_item" /\ ret'.args = <<g>>

\* The guid g has the RecordItem row a create_record_item call wrote
HasRecordItem(g) ==
    /\ Created(g)
    /\ GetItem(table, RecordKey(g)[1], RecordKey(g)[2]) = Some(RecordPut(g))

\* C15 (DedupSpec): for a guid that already has its RecordItem, create_record_item
\* can return Ok (the row in place is no reason to fail), and when it returns
\* Ok the table is what it was after the first call and record_item_exists
\* is still true.
C15_IdempotentRecord ==
    /\ [](\A g \in Guids :
            (Idle /\ HasRecordItem(g)) => ENABLED (create_record_item(g) /\ ret'.ok))
    /\ [][\A g \in Guids :
            (CreateRecordStep(g) /\ HasRecordItem(g) /\ ret'.ok) =>
                (table' = table /\ RecordItemExists(table', g))]_vars

\* The second create_record_item for a guid has returned Ok, next to another row
C15_Witness ==
    /\ pc = "idle" /\ ret.op = "create_record_item" /\ ret.ok
    /\ \E first, second \in record_writes :
          /\ first.by = "create_record_item" /\ second.by = "create_record_item"
          /\ first.guid = ret.args[1] /\ second.guid = ret.args[1]
          /\ first.at < second.at /\ second.at = ops
    /\ Cardinality(table) = 2
    /\ RecordItemExists(table, ret.args[1])

\* The empty and the blank key
BlankKeys == {"", " "}

\* C16 (as claimed; PipelineSpec): every row has non-empty key attributes,
\* every dedup row is the row of a non-empty guid, and a stage invoked with an
\* empty or blank guid returns an error and writes nothing.
C16_NonEmptyKeys ==
    /\ \A r \in table : r.PK[2] \notin BlankKeys /\ r.SK[2] \notin BlankKeys
    /\ \A w \in record_writes : w.guid \notin BlankKeys
    /\ (pc = "idle" /\ ret.op = "update_dynamodb" /\ ret.args[1] \in BlankKeys) =>
          ~ret.ok

\* The key holds a row with a summary attribute
HasSummary(t, pk, sk) ==
    GetItem(t, pk, sk) # None /\ "summary" \in DOMAIN GetItem(t, pk, sk)[1]

\* The step is a summary update of the key that returned Ok:
\* update_execution_item_summary, or the summarize stage with AI summaries on
SummaryUpdateOf(pk, sk) ==
    /\ ops' = ops + 1 /\ ret'.ok
    /\ \/ ret'.op = "update_execution_item_summary"
       \/ ret'.op = "summarize_bedrock" /\ ret'.args[3]
    /\ S(ret'.args[1]) = pk /\ S(ret'.args[2]) = sk

\* C17 (StagingSpec): a row gets a summary attribute only in a step that
\* applies a summary update to its key (so create_execution_item and
\* create_execution_items never write one, whatever the item's summary field
\* holds), and the summarize stage with AI summaries off returns Ok and
\* leaves the table as it is.
C17_SummaryAbsent ==
    [][/\ \A r \in table' :
             ("summary" \in DOMAIN r /\ ~HasSummary(table, r.PK, r.SK)) =>
                 SummaryUpdateOf(r.PK, r.SK)
       /\ (ops' = ops + 1 /\ ret'.op = "summarize_bedrock" /\ ~ret'.args[3]) =>
             (ret'.ok /\ table' = table)]_vars

\* The summarize stage has run with AI summaries off on a staged row, which
\* has no summary
C17_Witness ==
    /\ pc = "idle" /\ ret.op = "summarize_bedrock" /\ ~ret.args[3] /\ ret.ok
    /\ GetItem(table, S(ret.args[1]), S(ret.args[2])) # None
    /\ ~HasSummary(table, S(ret.args[1]), S(ret.args[2]))

\* truncate_to_word has shortened the text
Shortened ==
    tpc = "returned" /\ max_graphemes > 0 /\ Len(TrimmedGraphemes) > max_graphemes

\* C18 (TextSpec): a shortened text comes back as a prefix of its units
\* followed by one ellipsis.  With a space (the space character only, a tab
\* is none) at an index > 0 among the first max_graphemes units, the prefix is
\* what precedes the last such space less its trailing spaces, and the
\* ellipsis is appended to it; with none, the prefix is the first
\* max_graphemes units and the ellipsis takes the place of its last unit, so a
\* budget of 1 gives the ellipsis alone.
C18_MarkerRule ==
    Shortened =>
        LET g == TrimmedGraphemes
            out == graphemes(truncated)
            kept == SubSeq(out, 1, Len(out) - 1)
        IN  /\ out # <<>> /\ out[Len(out)] = <<Ellipsis>>
            /\ truncated = join(kept) \o <<Ellipsis>>
            /\ kept = SubSeq(g, 1, Len(kept))
            /\ IF InteriorSpaces = {}
               THEN /\ kept = SubSeq(g, 1, max_graphemes - 1)
                    /\ (max_graphemes = 1 => truncated = <<Ellipsis>>)
               ELSE LET last_space ==
                            CHOOSE i \in InteriorSpaces : \A j \in InteriorSpaces : j <= i
                        ends == {k \in 1..(last_space - 1) : g[k] # <<Space>>}
                    IN  /\ Len(kept) < max_graphemes
                        /\ Len(kept) = CHOOSE k \in ends : \A j \in ends : j <= k

\* A shortened text with a tab and no space inside the budget: the tab is
\* kept, and the ellipsis stands in place of the last unit of the budget
C18_Witness ==
    /\ Shortened /\ InteriorSpaces = {}
    /\ \E i \in 1..(max_graphemes - 1) : TrimmedGraphemes[i] = <<Tab>>
    /\ TrimmedGraphemes[max_graphemes] = <<Letter>>
    /\ truncated = join(SubSeq(TrimmedGraphemes, 1, max_graphemes - 1)) \o <<Ellipsis>>

\* The keys of the pages the queries of the invocation returned, in order
PageKeys ==
    Concat([k \in 1..Len(queries) |->
               IF queries[k].answered
               THEN [i \in 1..Len(queries[k].result.items) |->
                        Key(queries[k].result.items[i])]
               ELSE <<>>])

\* The last query was answered with a page without a continuation token
LastPageRead ==
    /\ queries # <<>>
    /\ queries[Len(queries)].answered
    /\ queries[Len(queries)].result.last_evaluated_key = None

\* C19 (DeleteSpec): the first query of delete_items_by_execution_id has no
\* start key and every later one starts at the continuation token of the page
\* before it; the query loop goes on exactly while the pages carry a token; no
\* delete request is sent before a page without a token was read; and the
\* keys the delete requests are built from are the keys of all pages.
C19_Pagination ==
    call.op = "delete_items_by_execution_id" =>
        /\ \A k \in 1..Len(queries) :
              /\ queries[k].start =
                    IF k = 1 THEN None ELSE queries[k - 1].result.last_evaluated_key
              /\ k < Len(queries) =>
                    (queries[k].answered
                        /\ queries[k].result.last_evaluated_key # None)
        /\ (pc = "delete_query" /\ queries # <<>>) =>
              (queries[Len(queries)].answered
                  /\ queries[Len(queries)].result.last_evaluated_key # None)
        /\ (pc = "delete_chunks" \/ requests # <<>>) =>
              (LastPageRead /\ items_to_delete = PageKeys)
        /\ (DeleteReturned /\ ret.ok) =>
              Concat([j \in 1..Len(requests) |->
                         [i \in 1..Len(requests[j].writes) |->
                             requests[j].writes[i].key]]) = PageKeys

\* Three pages or more were read, the last one empty after a token handed
\* out with the last rows, and the rows of all pages were deleted
C19_Witness ==
    /\ DeleteReturned /\ ret.ok
    /\ Len(queries) >= 3
    /\ queries[Len(queries)].result.items = <<>>
    /\ Len(PageKeys) = ret.value /\ ret.value > 25

\* C20 (DeleteSpec): the keys are deleted in chunks of at most 25; a bulk
\* delete request that fails or reports unprocessed rows is the last request
\* sent (no later chunk, no retry), the operation has returned Err with a
\* message and no count, the rows of the chunks before it are gone and the
\* rows of the chunks after it are still in the table.
C20_DeletePartialFailure ==
    call.op = "delete_items_by_execution_id" =>
        /\ \A j \in 1..Len(requests) :
              requests[j].writes =
                  [i \in 1..Min(25, Len(items_to_delete) - 25 * (j - 1)) |->
                      [kind |-> "delete", key |-> items_to_delete[25 * (j - 1) + i]]]
        /\ \A k \in 1..Len(requests) :
              (requests[k].response.error \/ requests[k].response.unprocessed # {}) =>
                  /\ DeleteReturned /\ ~ret.ok
                  /\ ret.value \in {"Failed to delete items",
                                    "Some items were not deleted"}
                  /\ k = Len(requests)
                  /\ \A i \in 1..(25 * (k - 1)) :
                        GetItem(table, items_to_delete[i][1], items_to_delete[i][2])
                            = None
                  /\ \A i \in (25 * k + 1)..Len(items_to_delete) :
                        /\ GetItem(table, items_to_delete[i][1], items_to_delete[i][2])
                              # None
                        /\ GetItem(table, items_to_delete[i][1], items_to_delete[i][2])
                              = GetItem(call.before, items_to_delete[i][1],
                                        items_to_delete[i][2])

\* The second of three chunks reports unprocessed rows: the first 25 rows
\* are gone, the row of the third chunk is still there
C20_Witness ==
    /\ DeleteReturned /\ ~ret.ok
    /\ Len(items_to_delete) > 50 /\ Len(requests) = 2
    /\ ~requests[2].response.error /\ requests[2].response.unprocessed # {}
    /\ \A i \in 1..25 :
          GetItem(table, items_to_delete[i][1], items_to_delete[i][2]) = None
    /\ GetItem(table, items_to_delete[51][1], items_to_delete[51][2]) # None

\* The attribute of the row is there and a string
StoredString(row, name) == name \in DOMAIN row /\ row[name][1] = "S"

\* The attribute of the row is there and a number that is an i64
StoredInteger(row, name) ==
    /\ name \in DOMAIN row /\ row[name][1] = "N"
    /\ \E n \in TtlValues : ToString(n) = row[name][2]

\* C21 (DecodeSpec): for a row that exists, whatever its attributes,
\* get_execution_item returns Ok (unless the read request itself fails) with
\* the execution_id and guid asked for; title, description, link, summary,
\* _type and pub_date are the stored strings, and absent when the attribute
\* is missing or no string; ttl is the stored integer, and absent when the
\* attribute is missing, no number or no i64.
C21_DefensiveDecoding ==
    (GetReturned /\ GetItem(table, S(ret.args[1]), S(ret.args[2])) # None) =>
        LET row == GetItem(table, S(ret.args[1]), S(ret.args[2]))[1]
            Expected(name) == IF StoredString(row, name) THEN Some(row[name][2])
                              ELSE None
        IN  IF ret.ok
            THEN /\ ret.value.execution_id = ret.args[1]
                 /\ ret.value.guid = ret.args[2]
                 /\ ret.value.title = Expected("title")
                 /\ ret.value.description = Expected("description")
                 /\ ret.value.link = Expected("link")
                 /\ ret.value.summary = Expected("summary")
                 /\ ret.value._type = Expected("_TYPE")
                 /\ ret.value.pub_date = Expected("pub_date")
                 /\ ret.value.ttl =
                       IF StoredInteger(row, "ttl")
                       THEN Some(CHOOSE n \in TtlValues : ToString(n) = row.ttl[2])
                       ELSE None
            ELSE ret.value = "Failed to get execution item"

\* A row with a title that is a number and a ttl that is a string is read
\* as an item without title and ttl, with its description
C21_Witness ==
    /\ GetReturned /\ ret.ok
    /\ \E row \in table :
          /\ Key(row) = <<S(ret.args[1]), S(ret.args[2])>>
          /\ "title" \in DOMAIN row /\ row.title[1] = "N"
          /\ "ttl" \in DOMAIN row /\ row.ttl[1] = "S"
          /\ "description" \in DOMAIN row
    /\ ret.value.title = None /\ ret.value.ttl = None
    /\ ret.value.description = Some("d1")

\* A bulk operation has returned
BulkReturned ==
    /\ pc = "idle"
    /\ call.op \in {"create_execution_items", "delete_items_by_execution_id",
                    "batch_write_items"}
    /\ ret.op = call.op

\* C22 (as claimed; BulkSpec): on each of the three bulk-write paths, an
\* operation that returns Ok has sent no request for which the table reported
\* unprocessed rows.
C22_NoSilentUnprocessed ==
    (BulkReturned /\ ret.ok) =>
        \A k \in 1..Len(requests) : requests[k].response.unprocessed = {}

\* A step in which the summarize stage runs, with AI summaries on, up to the
\* reply of the summarization service
SummarizeStep ==
    /\ pc = "idle" /\ pc' = "idle" /\ ops' = ops + 1
    /\ ret'.op = "summarize_bedrock" /\ ret'.args[4] # None

\* C23 (as claimed; StagingSpec): when the reply of the summarization
\* service carries no summary text, the summarize stage returns an error and
\* leaves the table as it is.
C23_NoSwallowedError ==
    [][(SummarizeStep /\ ret'.args[4][1].text = None) =>
          (~ret'.ok /\ table' = table)]_vars

\* C24 (as claimed; StagingSpec): the summary the summarize stage has written
\* for a text of the summarization service is truncate_to_word(text, 290).
C24_UsesTruncator ==
    (pc = "idle" /\ ret.op = "summarize_bedrock" /\ ret.ok /\ ret.args[4] # None) =>
        (ret.args[4][1].text # None =>
            GetItem(table, S(ret.args[1]), S(ret.args[2]))[1].summary =
                S(truncate_to_word(ret.args[4][1].text[1], MAX_BSKY_GRAPHEMES)))

\* C26 (TextSpec): truncating the result of truncate_to_word again with the
\* same max_graphemes gives the same text, for every text and every budget.
C26_Idempotent ==
    tpc = "returned" =>
        truncate_to_word(truncated, max_graphemes) = truncated

\* A text that was shortened to a word boundary and given the marker, and
\* which a second truncation leaves as it is
C26_Witness ==
    /\ Shortened /\ InteriorSpaces # {}
    /\ truncated # trim(summary)
    /\ Len(graphemes(truncated)) < max_graphemes
    /\ truncate_to_word(truncated, max_graphemes) = truncated

\* The rows create_execution_item can have put under a key
CreatedRows(execution_id, guid) ==
    {ExecutionPut(SampleItem(execution_id, guid, v)) : v \in {"v1", "v2", "sparse"}}

\* C27 (StagingSpec): after create_execution_item or create_execution_items
\* has returned Ok, the row of every item it staged is the row put for that
\* item and nothing else: no attribute of the row it replaced is left, and it
\* has no summary, also when the item's summary field is set.
C27_RestagingReplacesRow ==
    [][/\ (ops' = ops + 1 /\ ret'.op = "create_execution_item" /\ ret'.ok) =>
             LET row == GetItem(table', S(ret'.args[1]), S(ret'.args[2]))
             IN  /\ row # None
                 /\ row[1] \in CreatedRows(ret'.args[1], ret'.args[2])
                 /\ "summary" \notin DOMAIN row[1]
       /\ (pc = "create_chunks" /\ pc' = "idle" /\ ret'.ok) =>
             \A i \in 1..Len(call.items) :
                LET item == call.items[i]
                    row == GetItem(table', S(item.execution_id), S(item.guid))
                IN  /\ row # None
                    /\ \E j \in 1..Len(call.items) : row[1] = ExecutionPut(call.items[j])
                    /\ "summary" \notin DOMAIN row[1]]_vars

\* create_execution_items has returned Ok for an item with a summary field and
\* no title whose row had a summary and a title before the call, and the row
\* has neither now
C27_Witness ==
    /\ pc = "idle" /\ call.op = "create_execution_items"
    /\ ret.op = "create_execution_items" /\ ret.ok
    /\ \E i \in 1..Len(call.items) :
          LET item == call.items[i]
              old == GetItem(call.before, S(item.execution_id), S(item.guid))
              new == GetItem(table, S(item.execution_id), S(item.guid))
          IN  /\ item.summary # None
              /\ old # None /\ {"summary", "title"} \subseteq DOMAIN old[1]
              /\ new # None /\ {"summary", "title"} \cap DOMAIN new[1] = {}

\* The callers whose update of the key has returned Ok
UpdatedBy(pk, sk) ==
    {c \in Callers : /\ updates[c].state = "ok"
                     /\ S(updates[c].execution_id) = pk /\ S(updates[c].guid) = sk}

\* A row without its summary attribute
WithoutSummary(r) == [a \in DOMAIN r \ {"summary"} |-> r[a]]

\* C25 (ConcurrentSpec): when the concurrent calls of
\* update_execution_item_summary have returned, the table holds the rows it
\* held before, every attribute other than summary as it was; a row no call
\* has updated is as it was, and the summary of a row the calls have updated
\* is the text of one of them.
C25_FieldLevelUpdate ==
    (\A c \in Callers : updates[c].state \in {"ok", "err"}) =>
        /\ {WithoutSummary(r) : r \in table} = ConcurrentTable
        /\ Cardinality(table) = Cardinality(ConcurrentTable)
        /\ \A r \in table :
              IF UpdatedBy(r.PK, r.SK) = {} THEN r \in ConcurrentTable
              ELSE /\ "summary" \in DOMAIN r
                   /\ \E c \in UpdatedBy(r.PK, r.SK) : r.summary = S(updates[c].text)

\* Both callers have updated the same row with different texts and got Ok;
\* the row holds the text of the first caller
C25_Witness ==
    /\ \A c \in Callers : updates[c].state = "ok"
    /\ updates[1].guid = updates[2].guid /\ updates[1].text # updates[2].text
    /\ \E r \in table :
          /\ Key(r) = <<S(updates[1].execution_id), S(updates[1].guid)>>
          /\ r.summary = S(updates[1].text)
          /\ WithoutSummary(r) \in ConcurrentTable

=============================================================================
